---- MODULE Spec2Model ----
(***************************************************************************)
(* A model of the extractor -> bounded buffer -> sinker pipeline of        *)
(* ape-dts (MysqlStructExtractor, PgCheckExtractor), of the row            *)
(* comparison engine of its test runner (RdbTestRunner), and of the CDC    *)
(* and snapshot tests the runner drives.                                   *)
(*                                                                         *)
(* Option<T> is modelled as a set: None == {} and Some(x) == {x}.          *)
(***************************************************************************)
EXTENDS Integers, Sequences, FiniteSets, TLC

VARIABLES
    kind,        \* which extractor the task runs: "struct" or "check"
    pc,          \* position of the extractor task
    fetched,     \* struct: what get_table / get_index / get_constraint return
    stage,       \* struct: index of the running for-loop in ExtractOrder
    todo,        \* struct: the objects the running for-loop has not visited yet
    file,        \* check: the check-log lines, in file order
    pos,         \* check: number of check-log lines the extractor is past
    check_logs,  \* check: the batch handed to batch_extract
    rows,        \* check: the rows the query stream has not yielded yet
    pending,     \* Option<item>: the item BaseExtractor::push_* is trying to push
    buffer,      \* the bounded ConcurrentQueue shared by extractor and sinker
    popped,      \* the items the sinker has dequeued, in dequeue order
    shut_down,   \* the shared AtomicBool
    tried,       \* history: the items the extractor has called a push for, in call order
    src_db_tbs,       \* compare: the source tables to compare
    dst_db_tbs,       \* compare: their destination tables, position by position
    filtered_db_tbs,  \* compare: the content of filtered_tbs.txt
    src_db_type,      \* compare: extractor_basic.db_type of the task configuration
    dst_db_type,      \* compare: sinker_basic.db_type of the task configuration
    idx,              \* compare: the index i of the loop of compare_data_for_tbs
    src_data,         \* compare: Option of the rows fetched from the source table
    dst_data,         \* compare: Option of the rows fetched from the destination table
    cmp_pc,           \* compare: position of the comparison
    row_result,       \* compare: what the last call of compare_row_data came to
    cmp_result,       \* compare: what compare_data_for_tbs came to
    run_pc,           \* runner: position of run_cdc_test / run_snapshot_test
    phase,            \* runner: index in Phases of execute_test_sqls_and_compare
    src_dml_sqls,     \* runner: the statements of src_dml.sql, in file order
    dst_dml_sqls,     \* runner: the statements of dst_dml.sql, in file order
    src_db,           \* the rows of the tables of the source database
    dst_db,           \* the rows of the tables of the destination database
    stream,           \* what the extractor reads: the replication stream in commit
                      \* order (CDC), the table scan taken at task start (snapshot)
    stream_pos        \* number of entries of stream the extractor is past

structVars == <<fetched, stage, todo>>

checkVars == <<file, pos, check_logs, rows>>

pipeVars == <<kind, pc, structVars, checkVars, pending, buffer, popped, shut_down, tried>>

cmpVars == <<src_db_tbs, dst_db_tbs, filtered_db_tbs, src_db_type, dst_db_type,
             idx, src_data, dst_data, cmp_pc, row_result, cmp_result>>

runVars == <<run_pc, phase, src_dml_sqls, dst_dml_sqls, src_db, dst_db, stream, stream_pos>>

vars == <<pipeVars, cmpVars, runVars>>

----------------------------------------------------------------------------
(* Bounds of the model *)

\* capacity of the buffer (runtime.buffer_size of the task configuration)
BufferSize == 2

\* number of objects of each kind (table, index, constraint) the fetcher returns at most
MaxObjs == 2

\* number of lines of the check-log file at most
MaxLogs == 3

\* runtime.batch_size of the task configuration
BatchSize == 2

----------------------------------------------------------------------------
(* Option<T> *)

None == {}

Some(x) == {x}

Unwrap(o) == CHOOSE x \in o : TRUE

Range(s) == {s[i] : i \in 1..Len(s)}

\* the sequences that enumerate the finite set S once each (an iteration order)
Orders(S) == {s \in [1..Cardinality(S) -> S] : Range(s) = S}

----------------------------------------------------------------------------
(* Buffer and lifecycle: BaseExtractor and the sinker *)

\* mutant of BasePush: the queue hands out the newest item first
BasePushLifo(buf, item, sd) ==
    IF Len(buf) < BufferSize
    THEN [res |-> "Ok", buffer |-> <<item>> \o buf]
    ELSE IF sd THEN [res |-> "Err", buffer |-> buf]
               ELSE [res |-> "Full", buffer |-> buf]

\* BaseExtractor's push on the bounded queue: accepted when there is room; on Full it
\* is retried while shutdown is not raised, and dropped with an error once it is
BasePush(buf, item, sd) ==
    IF Len(buf) < BufferSize
    THEN [res |-> "Ok", buffer |-> Append(buf, item)]
    ELSE IF sd THEN [res |-> "Err", buffer |-> buf]
               ELSE [res |-> "Full", buffer |-> buf]

\* BaseExtractor::wait_task_finish polls until this holds
WaitTaskFinishDone(buf, sd) == buf = <<>> /\ sd

----------------------------------------------------------------------------
(* Struct extractor: MysqlStructExtractor *)

\* the schema the struct extractor migrates (self.db)
Db == "db1"

\* a StructModel returned by the MysqlStructFetcher
StructModel(k, id) == [kind |-> k, id |-> id]

\* mutant of ExtractOrder: the indexes are extracted before the tables
ExtractOrderIndexFirst == <<"index", "table", "constraint">>

\* the order in which extract_internal calls get_table, get_index, get_constraint
ExtractOrder == <<"table", "index", "constraint">>

\* mutant of DdlItem: the DdlData is built without the StructModel
DdlItemNoMeta(meta) ==
    [type |-> "Ddl",
     ddl_data |-> [schema |-> Db, query |-> "", meta |-> None,
                   ddl_type |-> "Unknown"]]

\* the DtData::Ddl item push_dt_data builds around a StructModel
DdlItem(meta) ==
    [type |-> "Ddl",
     ddl_data |-> [schema |-> Db, query |-> "", meta |-> Some(meta),
                   ddl_type |-> "Unknown"]]

\* mutant of UnwrapPush: the Result is discarded (let _ = ...) and the caller goes on
UnwrapPushIgnore(res, at) == at

\* the .unwrap() on the Result of BaseExtractor::push_dt_data / push_row: an Err panics
UnwrapPush(res, at) == IF res = "Err" THEN "panicked" ELSE at

\* mysql_fetcher.get_table / get_index / get_constraint (&None).await.unwrap(), Ok case:
\* the for-loop starts over the returned collection
StructFetch ==
    /\ kind = "struct" /\ pc = "fetch"
    /\ todo' = fetched[ExtractOrder[stage]]
    /\ pc' = "loop"
    /\ UNCHANGED <<kind, fetched, stage, checkVars, pending, buffer, popped, shut_down, tried, cmpVars, runVars>>

\* the same call returning Err: unwrap() panics
StructFetchErr ==
    /\ kind = "struct" /\ pc = "fetch"
    /\ pc' = "panicked"
    /\ UNCHANGED <<kind, structVars, checkVars, pending, buffer, popped, shut_down, tried, cmpVars, runVars>>

\* mutant of StructPushDtData: the future of push_dt_data is dropped without .await,
\* so the loop moves on and nothing is pushed
StructPushDtDataNoAwait ==
    /\ kind = "struct" /\ pc = "loop" /\ pending = None
    /\ \E meta \in todo :
          /\ tried' = Append(tried, DdlItem(meta))
          /\ todo' = todo \ {meta}
    /\ UNCHANGED <<kind, pc, fetched, stage, checkVars, pending, buffer, popped, shut_down, cmpVars, runVars>>

\* one iteration of a for-loop: self.push_dt_data(&meta) is called for the next
\* (_, meta) of the collection; the iteration order of the collection is not fixed
StructPushDtData ==
    /\ kind = "struct" /\ pc = "loop" /\ pending = None
    /\ \E meta \in todo :
          /\ pending' = Some(DdlItem(meta))
          /\ tried' = Append(tried, DdlItem(meta))
          /\ todo' = todo \ {meta}
    /\ UNCHANGED <<kind, pc, fetched, stage, checkVars, buffer, popped, shut_down, cmpVars, runVars>>

\* mutant of StructLoopEnd: wait_task_finish follows the first for-loop, the loops
\* over the indexes and the constraints are missing
StructLoopEndEarly ==
    /\ kind = "struct" /\ pc = "loop" /\ pending = None /\ todo = {}
    /\ stage' = stage /\ pc' = "wait"
    /\ UNCHANGED <<kind, fetched, todo, checkVars, pending, buffer, popped, shut_down, tried, cmpVars, runVars>>

\* a for-loop is exhausted: the next fetch, or wait_task_finish after the last loop
StructLoopEnd ==
    /\ kind = "struct" /\ pc = "loop" /\ pending = None /\ todo = {}
    /\ IF stage < Len(ExtractOrder)
       THEN stage' = stage + 1 /\ pc' = "fetch"
       ELSE stage' = stage /\ pc' = "wait"
    /\ UNCHANGED <<kind, fetched, todo, checkVars, pending, buffer, popped, shut_down, tried, cmpVars, runVars>>

\* mutant of ExtractInternalReturn: Ok(()) is returned after the last loop without
\* the call of wait_task_finish
ExtractInternalReturnNoWait ==
    /\ kind = "struct" /\ pc = "wait"
    /\ pc' = "returned"
    /\ UNCHANGED <<kind, structVars, checkVars, pending, buffer, popped, shut_down, tried, cmpVars, runVars>>

\* extract_internal returns what BaseExtractor::wait_task_finish returns
ExtractInternalReturn ==
    /\ kind = "struct" /\ pc = "wait"
    /\ WaitTaskFinishDone(buffer, shut_down)
    /\ pc' = "returned"
    /\ UNCHANGED <<kind, structVars, checkVars, pending, buffer, popped, shut_down, tried, cmpVars, runVars>>

----------------------------------------------------------------------------
(* Typed rows: ColValue, RowData, and the router *)

\* a ColValue: a tagged variant; the payload is kept as its text
ColValue(tag, v) == [tag |-> tag, v |-> v]

ColValueNone == ColValue("None", "")

\* RowData::build_insert_row_data and RowData::from_pg_row: an Insert carrying the
\* columns as its after image and no before image
InsertRowData(schema, tb, after) ==
    [schema |-> schema, tb |-> tb, row_type |-> "Insert",
     before |-> None, after |-> Some(after)]

\* RdbRouter::get_tb_map: the destination of a source table, identity on a miss
TbMap == [db_tb \in {<<"s", "t">>} |-> <<"s", "u">>]

get_tb_map(db, tb) ==
    IF <<db, tb>> \in DOMAIN TbMap THEN TbMap[<<db, tb>>] ELSE <<db, tb>>

\* RdbRouter::get_col_map: Option<Map<col, col'>> of a source table
ColMap == [db_tb \in {<<"s", "t">>} |-> [c \in {"v"} |-> "w"]]

get_col_map(db, tb) ==
    IF <<db, tb>> \in DOMAIN ColMap THEN Some(ColMap[<<db, tb>>]) ELSE None

\* the destination name of a column under Option<col_map>, the column itself on a miss
MapCol(col_map, c) ==
    IF col_map # None /\ c \in DOMAIN Unwrap(col_map) THEN Unwrap(col_map)[c] ELSE c

\* a column map renamed through Option<col_map>
RouteCols(col_map, m) ==
    [d \in {MapCol(col_map, c) : c \in DOMAIN m} |->
        m[CHOOSE c \in DOMAIN m : MapCol(col_map, c) = d]]

\* the router applied to a row by BaseExtractor::push_row before the push
RouteRow(row) ==
    LET dst == get_tb_map(row.schema, row.tb)
        cm == get_col_map(row.schema, row.tb)
    IN [schema |-> dst[1], tb |-> dst[2], row_type |-> row.row_type,
        before |-> {RouteCols(cm, m) : m \in row.before},
        after |-> {RouteCols(cm, m) : m \in row.after}]

\* the DtItem BaseExtractor::push_row puts on the buffer
DmlItem(row_data) == [type |-> "Dml", row_data |-> RouteRow(row_data), position |-> "None"]

----------------------------------------------------------------------------
(* Check extractor: PgCheckExtractor *)

LogTypes == {"Miss", "Diff"}

CheckLog(tb, log_type, col, value) ==
    [schema |-> "s", tb |-> tb, log_type |-> log_type,
     cols |-> <<col>>, col_values |-> <<value>>]

\* the check-log lines a file may hold: Miss and Diff lines of table t whose key
\* parses, a line whose value does not parse, a line with a null value, a line with
\* a column the table does not have, and a line of a second table
CheckLogs ==
    {CheckLog("t", lt, "pk", Some(v)) : lt \in LogTypes, v \in {"1", "2"}}
    \cup {CheckLog("t", "Miss", "pk", Some("x")), CheckLog("t", "Miss", "pk", None),
          CheckLog("t", "Miss", "zz", Some("1")), CheckLog("k", "Diff", "pk", Some("1"))}

\* the files of at most n lines
Files(n) == UNION {[1..len -> CheckLogs] : len \in 0..n}

\* PgTbMeta.col_type_map of the tables: column -> column type
ColTypeMap == [c \in {"pk", "v"} |-> IF c = "pk" THEN "int4" ELSE "text"]

\* PgColValueConvertor::from_str: Some(value), or None when the text does not parse
from_str(col_type, str) ==
    IF col_type = "int4"
    THEN IF str \in {"1", "2"} THEN Some(ColValue("Int", str)) ELSE None
    ELSE Some(ColValue("Str", str))

\* build_check_row_datas from the i-th check log on: the check rows built so far are
\* result; an unknown column panics (unwrap), an unparseable value returns Err
RECURSIVE BuildFrom(_, _, _)
BuildFrom(logs, i, result) ==
    IF i > Len(logs) THEN [res |-> "Ok", datas |-> result]
    ELSE LET check_log == logs[i]
             col == check_log.cols[1]
             value == check_log.col_values[1]
         IN IF col \notin DOMAIN ColTypeMap THEN [res |-> "Panic", datas |-> <<>>]
            ELSE IF value # None /\ from_str(ColTypeMap[col], Unwrap(value)) = None
                 THEN [res |-> "Err", datas |-> <<>>]
                 ELSE LET col_value == IF value # None
                                       THEN Unwrap(from_str(ColTypeMap[col], Unwrap(value)))
                                       ELSE ColValueNone
                          after == [c \in {col} |-> col_value]
                      IN BuildFrom(logs, i + 1,
                            Append(result, InsertRowData(check_log.schema, check_log.tb, after)))

build_check_row_datas(logs) == BuildFrom(logs, 1, <<>>)

\* the keys the select of batch_extract asks for: get_select_query of the one check
\* row, or get_batch_select_query of all of them
SelectKeys(logs, datas) ==
    IF Len(logs) = 1
    THEN {Unwrap(datas[1].after)["pk"]}
    ELSE {Unwrap(datas[i].after)["pk"] : i \in 1..Len(datas)}

\* the row of the source table with the given key
SrcRow(key) == [c \in {"pk", "v"} |-> IF c = "pk" THEN key ELSE ColValue("Str", "a")]

\* what the query may stream back: the rows the source still has under the asked
\* keys, in the order the database returns them
QueryResults(keys) ==
    UNION {Orders({SrcRow(k) : k \in found}) : found \in SUBSET (keys \ {ColValueNone})}

\* mutant of CheckRowData: a Diff row becomes an Update but after is not copied to before
CheckRowDataNoBefore(row, tb, log_type) ==
    LET row_data == InsertRowData("s", tb, row)
    IN IF log_type = "Diff"
       THEN [row_data EXCEPT !.row_type = "Update"]
       ELSE row_data

\* the row batch_extract pushes for a streamed row: from_pg_row, then for a Diff log
\* row_type = Update and before = after.clone()
CheckRowData(row, tb, log_type) ==
    LET row_data == InsertRowData("s", tb, row)
    IN IF log_type = "Diff"
       THEN [row_data EXCEPT !.row_type = "Update", !.before = row_data.after]
       ELSE row_data

\* whether two check logs may share a batch
SameBatch(a, b) == a.schema = b.schema /\ a.tb = b.tb /\ a.log_type = b.log_type

\* mutant of NextBatch: the next batch_size lines, whatever table or log type they
\* are of
NextBatchUngrouped(f, p) ==
    SubSeq(f, p + 1, IF p + BatchSize <= Len(f) THEN p + BatchSize ELSE Len(f))

\* BaseCheckExtractor::extract: the next batch is the longest run of contiguous lines
\* after position p that share (schema, table, log_type), cut at batch_size lines
NextBatch(f, p) ==
    LET fits(n) == /\ p + n <= Len(f)
                   /\ \A i \in 1..n : SameBatch(f[p + 1], f[p + i])
        len == CHOOSE n \in 0..BatchSize :
                  /\ fits(n)
                  /\ \A m \in 0..BatchSize : fits(m) => m <= n
    IN SubSeq(f, p + 1, p + len)

\* the loop of BaseCheckExtractor::extract hands the next batch to batch_extract;
\* past the last line the remainder it flushes is empty
CheckNextBatch ==
    /\ kind = "check" /\ pc = "next_batch" /\ ~shut_down
    /\ check_logs' = NextBatch(file, pos)
    /\ pc' = "batch"
    /\ UNCHANGED <<kind, structVars, file, pos, rows, pending, buffer, popped, shut_down, tried, cmpVars, runVars>>

\* the loop leaves at its safe point once the shutdown flag is raised
CheckLoopExit ==
    /\ kind = "check" /\ pc = "next_batch" /\ shut_down
    /\ pc' = "done"
    /\ UNCHANGED <<kind, structVars, checkVars, pending, buffer, popped, shut_down, tried, cmpVars, runVars>>

\* mutant of BatchExtractEmpty: on the empty slice the extractor raises the shutdown
\* flag itself before it returns
BatchExtractEmptyRaises ==
    /\ kind = "check" /\ pc = "batch" /\ check_logs = <<>>
    /\ pc' = "done" /\ shut_down' = TRUE
    /\ UNCHANGED <<kind, structVars, checkVars, pending, buffer, popped, tried, cmpVars, runVars>>

\* batch_extract on an empty slice returns Ok at once
BatchExtractEmpty ==
    /\ kind = "check" /\ pc = "batch" /\ check_logs = <<>>
    /\ pc' = "done"
    /\ UNCHANGED <<kind, structVars, checkVars, pending, buffer, popped, shut_down, tried, cmpVars, runVars>>

\* meta_manager.get_tb_meta(..).await? fails: batch_extract returns the Err
BatchExtractMetaErr ==
    /\ kind = "check" /\ pc = "batch" /\ check_logs # <<>>
    /\ pc' = "error"
    /\ UNCHANGED <<kind, structVars, checkVars, pending, buffer, popped, shut_down, tried, cmpVars, runVars>>

\* batch_extract up to query.fetch: the table meta resolves, build_check_row_datas
\* runs (it may panic or return Err), the select is built and the stream opened
BatchExtractQuery ==
    /\ kind = "check" /\ pc = "batch" /\ check_logs # <<>>
    /\ LET built == build_check_row_datas(check_logs)
       IN CASE built.res = "Panic" -> pc' = "panicked" /\ rows' = rows
            [] built.res = "Err" -> pc' = "error" /\ rows' = rows
            [] OTHER -> /\ rows' \in QueryResults(SelectKeys(check_logs, built.datas))
                        /\ pc' = "rows"
    /\ UNCHANGED <<kind, structVars, file, pos, check_logs, pending, buffer, popped, shut_down, tried, cmpVars, runVars>>

\* mutant of BatchExtractRow: what is pushed for a streamed row is the check row
\* built from the first check log, not the row the source returned
BatchExtractRowOfLog ==
    /\ kind = "check" /\ pc = "rows" /\ pending = None /\ rows # <<>>
    /\ LET item == DmlItem(build_check_row_datas(check_logs).datas[1])
       IN pending' = Some(item) /\ tried' = Append(tried, item)
    /\ rows' = Tail(rows)
    /\ UNCHANGED <<kind, pc, structVars, file, pos, check_logs, buffer, popped, shut_down, cmpVars, runVars>>

\* rows.try_next().await.unwrap() yields a row: it is turned into the row to push
\* and BaseExtractor::push_row is called with the router
BatchExtractRow ==
    /\ kind = "check" /\ pc = "rows" /\ pending = None /\ rows # <<>>
    /\ LET item == DmlItem(CheckRowData(Head(rows), check_logs[1].tb,
                                         check_logs[1].log_type))
       IN pending' = Some(item) /\ tried' = Append(tried, item)
    /\ rows' = Tail(rows)
    /\ UNCHANGED <<kind, pc, structVars, file, pos, check_logs, buffer, popped, shut_down, cmpVars, runVars>>

\* rows.try_next() returns Err: unwrap() panics
BatchExtractStreamErr ==
    /\ kind = "check" /\ pc = "rows" /\ pending = None
    /\ pc' = "panicked"
    /\ UNCHANGED <<kind, structVars, checkVars, pending, buffer, popped, shut_down, tried, cmpVars, runVars>>

\* mutant of BatchExtractOk: the row loop also ends once the shutdown flag is raised
BatchExtractOkOnShutdown ==
    /\ kind = "check" /\ pc = "rows" /\ pending = None /\ (rows = <<>> \/ shut_down)
    /\ pos' = pos + Len(check_logs)
    /\ pc' = "next_batch"
    /\ UNCHANGED <<kind, structVars, file, check_logs, rows, pending, buffer, popped, shut_down, tried, cmpVars, runVars>>

\* the stream is exhausted: batch_extract returns Ok(()) and the loop moves past
\* the lines of the batch
BatchExtractOk ==
    /\ kind = "check" /\ pc = "rows" /\ pending = None /\ rows = <<>>
    /\ pos' = pos + Len(check_logs)
    /\ pc' = "next_batch"
    /\ UNCHANGED <<kind, structVars, file, check_logs, rows, pending, buffer, popped, shut_down, tried, cmpVars, runVars>>

----------------------------------------------------------------------------
(* The pipeline *)

\* BaseExtractor::push_dt_data / push_row completes, and the caller unwraps its Result
Push ==
    /\ pending # None
    /\ LET r == BasePush(buffer, Unwrap(pending), shut_down)
       IN /\ r.res # "Full"
          /\ buffer' = r.buffer
          /\ pc' = UnwrapPush(r.res, pc)
    /\ pending' = None
    /\ UNCHANGED <<kind, structVars, checkVars, popped, shut_down, tried, cmpVars, runVars>>

\* the sinker pops the head of the buffer
SinkerPop ==
    /\ buffer # <<>>
    /\ popped' = Append(popped, Head(buffer))
    /\ buffer' = Tail(buffer)
    /\ UNCHANGED <<kind, pc, structVars, checkVars, pending, shut_down, tried, cmpVars, runVars>>

\* the orchestrator raises the shutdown flag
RaiseShutdown ==
    /\ ~shut_down
    /\ shut_down' = TRUE
    /\ UNCHANGED <<kind, pc, structVars, checkVars, pending, buffer, popped, tried, cmpVars, runVars>>

\* the collections the struct fetcher may return: up to MaxObjs objects of each kind
Fetches ==
    [Range(ExtractOrder) -> {n \in 0..MaxObjs : TRUE}]

FetchedOf(counts) ==
    [k \in Range(ExtractOrder) |-> {StructModel(k, id) : id \in 1..counts[k]}]

\* no test runner drives the task: no scripts, no databases, no stream
RunIdle ==
    /\ run_pc = "off" /\ phase = 0
    /\ src_dml_sqls = <<>> /\ dst_dml_sqls = <<>>
    /\ src_db = <<>> /\ dst_db = <<>>
    /\ stream = <<>> /\ stream_pos = 0

\* the comparison is not running
CmpIdle ==
    /\ src_db_tbs = <<>> /\ dst_db_tbs = <<>> /\ filtered_db_tbs = {}
    /\ src_db_type = "Pg" /\ dst_db_type = "Pg"
    /\ idx = 0 /\ src_data = None /\ dst_data = None
    /\ cmp_pc = "off" /\ row_result = "none" /\ cmp_result = "none"

Init ==
    /\ CmpIdle /\ RunIdle
    /\ kind \in {"struct", "check"}
    /\ pending = None /\ buffer = <<>> /\ popped = <<>> /\ shut_down = FALSE
    /\ tried = <<>>
    /\ stage = 1 /\ todo = {} /\ pos = 0 /\ check_logs = <<>> /\ rows = <<>>
    /\ IF kind = "struct"
       THEN /\ pc = "fetch"
            /\ fetched \in {FetchedOf(c) : c \in Fetches}
            /\ file = <<>>
       ELSE /\ pc = "next_batch"
            /\ fetched = FetchedOf([k \in Range(ExtractOrder) |-> 0])
            /\ file \in Files(MaxLogs)

Next ==
    \/ StructFetch \/ StructFetchErr \/ StructPushDtData \/ StructLoopEnd
    \/ ExtractInternalReturn
    \/ CheckNextBatch \/ CheckLoopExit \/ BatchExtractEmpty \/ BatchExtractMetaErr
    \/ BatchExtractQuery \/ BatchExtractRow \/ BatchExtractStreamErr \/ BatchExtractOk
    \/ Push \/ SinkerPop \/ RaiseShutdown

Spec == Init /\ [][Next]_vars

\* the scheduling of the cooperative runtime: a push that can complete does, and the
\* sinker keeps popping a non-empty buffer
FairSpec == Spec /\ WF_vars(Push) /\ WF_vars(SinkerPop)

\* the same, with a struct extractor that is scheduled: a fetch that is awaited
\* completes (with Ok or with Err), the for-loops advance, and wait_task_finish
\* returns once its condition holds
FairStructSpec ==
    /\ FairSpec
    /\ WF_vars(StructFetch \/ StructFetchErr)
    /\ WF_vars(StructPushDtData) /\ WF_vars(StructLoopEnd)
    /\ WF_vars(ExtractInternalReturn)

----------------------------------------------------------------------------
(* Claims about the pipeline *)

\* the item a push is still trying to put on the buffer, as a sequence
Waiting == IF pending = None THEN <<>> ELSE <<Unwrap(pending)>>

\* every item that was accepted by the buffer, oldest first
Accepted == popped \o buffer

\* C1 (Drain): extract_internal, which ends in wait_task_finish, has returned only in
\* states where the buffer is empty and the shutdown flag is set, and every item the
\* extractor pushed has been popped by the sinker: none was removed any other way.
C1_Drain ==
    pc = "returned" => (buffer = <<>> /\ shut_down /\ popped = tried)

C1_Witness ==
    kind = "struct" /\ pc = "returned" /\ Len(popped) >= 3

\* C2 (no loss under backpressure): the buffer never holds more than buffer_size
\* items; while the shutdown flag is not raised the items accepted or still being
\* retried are exactly the items the extractor tried to push, once each and in
\* order; and a push that waits is eventually accepted unless shutdown is raised.
C2_NoLossUnderBackpressure ==
    /\ [](Len(buffer) <= BufferSize)
    /\ [](~shut_down => Accepted \o Waiting = tried)
    /\ (pending # None) ~> (pending = None \/ shut_down)

C2_Witness ==
    ~shut_down /\ pending # None /\ Len(buffer) = BufferSize /\ popped # <<>>

\* C3 (push retries or fails): a push in progress stays in progress until either the
\* item is appended to a buffer that had room, or the buffer is full and shutdown is
\* raised, and then the buffer is left as it was and the caller gets the error (its
\* unwrap panics); an item is missing from the buffer only after such a failure.
C3_PushRetriesOrFails ==
    /\ [][pending # None =>
            \/ pending' = pending
            \/ /\ pending' = None /\ Len(buffer) < BufferSize
               /\ buffer' = Append(buffer, Unwrap(pending))
            \/ /\ pending' = None /\ Len(buffer) = BufferSize /\ shut_down
               /\ buffer' = buffer /\ pc' = "panicked"]_vars
    /\ [](Accepted \o Waiting # tried =>
            /\ pc = "panicked" /\ shut_down
            /\ Accepted = SubSeq(tried, 1, Len(tried) - 1))

C3_Witness ==
    pc = "panicked" /\ tried # <<>> /\ Accepted = SubSeq(tried, 1, Len(tried) - 1)

\* table objects come first, then index objects, then constraint objects
Rank(k) == CASE k = "table" -> 1 [] k = "index" -> 2 [] k = "constraint" -> 3

MetaOf(item) == Unwrap(item.ddl_data.meta)

\* C5 (tables -> indexes -> constraints): in the sequence of items the struct
\* extractor pushes, no index precedes a table and no constraint precedes an index
\* or a table; and wait_task_finish is entered only when every fetched object,
\* the last constraint included, has been pushed.
C5_StructOrder ==
    kind = "struct" =>
        /\ \A i, j \in 1..Len(tried) :
              i < j => Rank(MetaOf(tried[i]).kind) <= Rank(MetaOf(tried[j]).kind)
        /\ pc \in {"wait", "returned"} =>
              /\ Accepted = tried
              /\ {MetaOf(tried[i]) : i \in 1..Len(tried)}
                    = fetched["table"] \cup fetched["index"] \cup fetched["constraint"]

C5_Witness ==
    /\ kind = "struct" /\ pc = "wait"
    /\ \A k \in {"table", "index", "constraint"} :
          \E i \in 1..Len(tried) : MetaOf(tried[i]).kind = k

\* C10 (check rows): every row the check extractor puts on the buffer is, when the
\* log_type of the running batch is Diff, an Update whose before equals its after,
\* and otherwise an Insert with no before.
C10_CheckRowShape ==
    [][(kind = "check" /\ Len(buffer') > Len(buffer)) =>
          LET row_data == buffer'[Len(buffer')].row_data
          IN IF check_logs[1].log_type = "Diff"
             THEN /\ row_data.row_type = "Update"
                  /\ row_data.after # None
                  /\ row_data.before = row_data.after
             ELSE /\ row_data.row_type = "Insert"
                  /\ row_data.after # None
                  /\ row_data.before = None]_vars

C10_Witness ==
    /\ kind = "check"
    /\ \E i \in 1..Len(Accepted) :
          /\ Accepted[i].row_data.row_type = "Update"
          /\ Accepted[i].row_data.before = Accepted[i].row_data.after
          /\ Accepted[i].row_data.after # None
    /\ \E i \in 1..Len(Accepted) :
          /\ Accepted[i].row_data.row_type = "Insert"
          /\ Accepted[i].row_data.before = None

----------------------------------------------------------------------------
(* Row comparison engine: RdbTestRunner *)

\* number of rows of a fetched table at most
MaxRows == 1

\* number of tables handed to compare_data_for_tbs at most
MaxTbs == 2

\* the engines of the source; the destination of the compared pair is Pg, so that
\* both an equal and a different engine pair occur
DbTypes == {"Mysql", "Pg"}

\* the column values of the compared tables: two values of different type with the
\* same text, and a NaN
CmpVals == {ColValue("Int", "1"), ColValue("Str", "1"), ColValue("Float", "NaN")}

\* the columns of the compared tables; the router maps column v of table t to w
CmpCols == {"v", "w"}

\* ColValue::is_nan
is_nan(v) == v.tag \in {"Float", "Double"} /\ v.v = "NaN"

\* ColValue::to_option_string
to_option_string(v) == IF v.tag = "None" THEN None ELSE Some(v.v)

\* the != of ColValue (derived PartialEq): a float NaN differs from every value
ColValueNe(a, b) == a # b \/ is_nan(a) \/ is_nan(b)

\* mutant of compare_col_value: the test of two NaN is missing
compare_col_value_no_nan(src_col_value, dst_col_value, src_type, dst_type) ==
    IF ColValueNe(src_col_value, dst_col_value)
    THEN IF src_type # dst_type
         THEN to_option_string(src_col_value) = to_option_string(dst_col_value)
         ELSE FALSE
    ELSE TRUE

\* mutant of compare_col_value: the string comparison is also used within one engine
compare_col_value_strings(src_col_value, dst_col_value, src_type, dst_type) ==
    IF ColValueNe(src_col_value, dst_col_value)
    THEN IF is_nan(src_col_value) /\ is_nan(dst_col_value) THEN TRUE
         ELSE to_option_string(src_col_value) = to_option_string(dst_col_value)
    ELSE TRUE

compare_col_value(src_col_value, dst_col_value, src_type, dst_type) ==
    IF ColValueNe(src_col_value, dst_col_value)
    THEN IF is_nan(src_col_value) /\ is_nan(dst_col_value) THEN TRUE
         ELSE IF src_type # dst_type
              THEN to_option_string(src_col_value) = to_option_string(dst_col_value)
              ELSE FALSE
    ELSE TRUE

\* the inner loop of compare_row_data over the columns of one source row, visited in
\* the given order from the j-th on: "continue" when every column matched, "false"
\* at the first mismatch; dst_col_values.get(dst_col).unwrap() panics when the
\* destination row has no such column
RECURSIVE CompareCols(_, _, _, _, _, _, _)
CompareCols(order, j, src_col_values, dst_col_values, col_map, src_type, dst_type) ==
    IF j > Len(order) THEN "continue"
    ELSE LET src_col == order[j]
             dst_col == MapCol(col_map, src_col)
         IN IF dst_col \notin DOMAIN dst_col_values THEN "panic"
            ELSE IF compare_col_value(src_col_values[src_col], dst_col_values[dst_col],
                                      src_type, dst_type)
                 THEN CompareCols(order, j + 1, src_col_values, dst_col_values,
                                  col_map, src_type, dst_type)
                 ELSE "false"

\* the outer loop of compare_row_data from row i on: the results it may come to; the
\* columns of a row are the entries of a HashMap, visited in any order
RECURSIVE CompareRows(_, _, _, _, _, _)
CompareRows(i, src, dst, col_map, src_type, dst_type) ==
    IF i > Len(src) THEN {"true"}
    ELSE IF src[i].after = None \/ dst[i].after = None THEN {"panic"}
    ELSE LET src_col_values == Unwrap(src[i].after)
             dst_col_values == Unwrap(dst[i].after)
             outs == {CompareCols(order, 1, src_col_values, dst_col_values,
                                  col_map, src_type, dst_type) :
                         order \in Orders(DOMAIN src_col_values)}
         IN (outs \ {"continue"})
            \cup (IF "continue" \in outs
                  THEN CompareRows(i + 1, src, dst, col_map, src_type, dst_type)
                  ELSE {})

\* mutant of compare_row_data: the columns are looked up under their source names
compare_row_data_unmapped(src, dst, col_map, src_type, dst_type) ==
    IF Len(src) # Len(dst) THEN {"panic"}
    ELSE CompareRows(1, src, dst, None, src_type, dst_type)

\* mutant of compare_row_data: a destination row with another number of columns
\* than the source row at its index does not match
compare_row_data_same_cols(src, dst, col_map, src_type, dst_type) ==
    IF Len(src) # Len(dst) THEN {"panic"}
    ELSE IF \E i \in 1..Len(src) :
               /\ src[i].after # None /\ dst[i].after # None
               /\ Cardinality(DOMAIN Unwrap(src[i].after))
                     # Cardinality(DOMAIN Unwrap(dst[i].after))
         THEN {"false"}
         ELSE CompareRows(1, src, dst, col_map, src_type, dst_type)

\* compare_row_data: assert_eq! on the row counts, then the loops
compare_row_data(src, dst, col_map, src_type, dst_type) ==
    IF Len(src) # Len(dst) THEN {"panic"}
    ELSE CompareRows(1, src, dst, col_map, src_type, dst_type)

\* the rows fetch_data returns for a table of the given columns: Insert rows of the
\* fetched table, each with a value for every column
RowsOf(db_tb, cols, n) ==
    UNION {[1..len -> {InsertRowData(db_tb[1], db_tb[2], after) :
                          after \in [cols -> CmpVals]}] : len \in 0..n}

\* what fetch_data may return for a table: up to MaxRows rows over some columns
FetchData(db_tb) ==
    UNION {RowsOf(db_tb, cols, MaxRows) : cols \in (SUBSET CmpCols) \ {{}}}

\* the source tables of the test: t is routed to u with a column map, k keeps its
\* name, f is listed in filtered_tbs.txt
CmpTbs == {<<"s", "t">>, <<"s", "k">>, <<"s", "f">>}

\* get_filtered_db_tbs: the (db, tb) pairs of the lines of filtered_tbs.txt
get_filtered_db_tbs == {<<"s", "f">>}

\* get_compare_db_tbs, second half: the destination table of every source table
DstDbTbs(src) == [i \in 1..Len(src) |-> get_tb_map(src[i][1], src[i][2])]

\* compare_data_for_tbs on a filtered table: the destination rows must be empty
FilteredOutcome(dst) == IF dst # <<>> THEN "panic" ELSE "next"

\* mutant of TbDataOutcome: the bool of compare_tb_data is dropped instead of asserted
TbDataOutcomeUnasserted(out) == IF out = "panic" THEN "panic" ELSE "next"

\* compare_data_for_tbs on any other table: assert!(compare_tb_data(..)), which is
\* Ok(true) or Ok(false) as compare_row_data returned
TbDataOutcome(out) == IF out = "true" THEN "next" ELSE "panic"

\* mutant of CmpFiltered: a filtered table is compared like any other table
CmpFilteredCompared ==
    /\ cmp_pc = "loop" /\ idx <= Len(src_db_tbs)
    /\ src_db_tbs[idx] \in filtered_db_tbs
    /\ \E s \in FetchData(src_db_tbs[idx]), d \in FetchData(dst_db_tbs[idx]) :
          /\ src_data' = Some(s) /\ dst_data' = Some(d)
          /\ row_result' \in compare_row_data(s, d, get_col_map(src_db_tbs[idx][1],
                                 src_db_tbs[idx][2]), src_db_type, dst_db_type)
    /\ cmp_pc' = "assert"
    /\ UNCHANGED <<runVars, pipeVars, src_db_tbs, dst_db_tbs, filtered_db_tbs, src_db_type,
                   dst_db_type, idx, cmp_result>>

\* one pass of the loop of compare_data_for_tbs on a filtered source table: only
\* the destination is fetched
CmpFiltered ==
    /\ cmp_pc = "loop" /\ idx <= Len(src_db_tbs)
    /\ src_db_tbs[idx] \in filtered_db_tbs
    /\ \E d \in FetchData(dst_db_tbs[idx]) :
          src_data' = None /\ dst_data' = Some(d)
    /\ row_result' = "none"
    /\ cmp_pc' = "assert"
    /\ UNCHANGED <<runVars, pipeVars, src_db_tbs, dst_db_tbs, filtered_db_tbs, src_db_type,
                   dst_db_type, idx, cmp_result>>

\* one pass of the loop on any other table: compare_tb_data fetches both sides and
\* calls compare_row_data with the column map of the source table
CmpTbData ==
    /\ cmp_pc = "loop" /\ idx <= Len(src_db_tbs)
    /\ src_db_tbs[idx] \notin filtered_db_tbs
    /\ \E s \in FetchData(src_db_tbs[idx]), d \in FetchData(dst_db_tbs[idx]) :
          /\ src_data' = Some(s) /\ dst_data' = Some(d)
          /\ row_result' \in compare_row_data(s, d, get_col_map(src_db_tbs[idx][1],
                                 src_db_tbs[idx][2]), src_db_type, dst_db_type)
    /\ cmp_pc' = "assert"
    /\ UNCHANGED <<runVars, pipeVars, src_db_tbs, dst_db_tbs, filtered_db_tbs, src_db_type,
                   dst_db_type, idx, cmp_result>>

\* the assertion that ends the pass: the loop goes on to the next index, or the
\* assertion fails (a panic inside compare_row_data ends the comparison the same way)
CmpAssert ==
    /\ cmp_pc = "assert"
    /\ LET outcome == IF src_db_tbs[idx] \in filtered_db_tbs /\ src_data = None
                      THEN FilteredOutcome(Unwrap(dst_data))
                      ELSE TbDataOutcome(row_result)
       IN IF outcome = "next"
          THEN /\ idx' = idx + 1 /\ cmp_pc' = "loop"
               /\ src_data' = None /\ dst_data' = None /\ row_result' = "none"
               /\ UNCHANGED cmp_result
          ELSE /\ cmp_pc' = "done" /\ cmp_result' = "panic"
               /\ UNCHANGED <<idx, src_data, dst_data, row_result>>
    /\ UNCHANGED <<runVars, pipeVars, src_db_tbs, dst_db_tbs, filtered_db_tbs, src_db_type, dst_db_type>>

\* fetch_data(..).await? returns Err: compare_data_for_tbs returns the Err
CmpFetchErr ==
    /\ cmp_pc = "loop" /\ idx <= Len(src_db_tbs)
    /\ cmp_pc' = "done" /\ cmp_result' = "Err"
    /\ UNCHANGED <<runVars, pipeVars, src_db_tbs, dst_db_tbs, filtered_db_tbs, src_db_type,
                   dst_db_type, idx, src_data, dst_data, row_result>>

\* the loop is over: Ok(true)
CmpReturn ==
    /\ cmp_pc = "loop" /\ idx > Len(src_db_tbs)
    /\ cmp_pc' = "done" /\ cmp_result' = "Ok(true)"
    /\ UNCHANGED <<runVars, pipeVars, src_db_tbs, dst_db_tbs, filtered_db_tbs, src_db_type,
                   dst_db_type, idx, src_data, dst_data, row_result>>

\* no extractor task runs
PipeIdle ==
    /\ kind = "none" /\ pc = "off"
    /\ fetched = FetchedOf([k \in Range(ExtractOrder) |-> 0])
    /\ stage = 1 /\ todo = {} /\ file = <<>> /\ pos = 0 /\ check_logs = <<>> /\ rows = <<>>
    /\ pending = None /\ buffer = <<>> /\ popped = <<>> /\ shut_down = FALSE
    /\ tried = <<>>

\* the lists of at most n of the tables
TbLists(n) == UNION {[1..len -> CmpTbs] : len \in 0..n}

InitCompare ==
    /\ PipeIdle /\ RunIdle
    /\ src_db_tbs \in TbLists(MaxTbs)
    /\ dst_db_tbs = DstDbTbs(src_db_tbs)
    /\ filtered_db_tbs = get_filtered_db_tbs
    /\ src_db_type \in DbTypes /\ dst_db_type = "Pg"
    /\ idx = 1 /\ src_data = None /\ dst_data = None
    /\ cmp_pc = "loop" /\ row_result = "none" /\ cmp_result = "none"

NextCompare == CmpFiltered \/ CmpTbData \/ CmpAssert \/ CmpFetchErr \/ CmpReturn

SpecCompare == InitCompare /\ [][NextCompare]_vars

----------------------------------------------------------------------------
(* Claims about the row comparison engine *)

\* the loop of compare_data_for_tbs stands at a filtered source table
AtFiltered == idx \in DOMAIN src_db_tbs /\ src_db_tbs[idx] \in filtered_db_tbs

RoutedCol(db_tb, c) ==
    IF db_tb \in DOMAIN ColMap /\ c \in DOMAIN ColMap[db_tb] THEN ColMap[db_tb][c] ELSE c

\* the engine-pair equality rule, as the claim states it
EnginePairEq(a, b, es, ed) ==
    \/ a = b
    \/ is_nan(a) /\ is_nan(b)
    \/ es # ed /\ to_option_string(a) = to_option_string(b)

\* C9 (routing): the destination tables are the get_tb_map images of the source
\* tables (the table itself without a mapping); and whenever compare_row_data
\* returned true, both sides have the same number of rows and for every row i and
\* every column c of src[i].after the column m(c) exists in dst[i].after and holds a
\* value equal to src[i].after[c] under the engine-pair equality rule
C9_Routing ==
    /\ Len(dst_db_tbs) = Len(src_db_tbs)
    /\ \A i \in DOMAIN src_db_tbs :
          dst_db_tbs[i] = IF src_db_tbs[i] \in DOMAIN TbMap
                          THEN TbMap[src_db_tbs[i]] ELSE src_db_tbs[i]
    /\ row_result = "true" =>
          LET s == Unwrap(src_data)
              d == Unwrap(dst_data)
          IN /\ Len(s) = Len(d)
             /\ \A i \in 1..Len(s) :
                   \A c \in DOMAIN Unwrap(s[i].after) :
                      /\ RoutedCol(src_db_tbs[idx], c) \in DOMAIN Unwrap(d[i].after)
                      /\ EnginePairEq(Unwrap(s[i].after)[c],
                                      Unwrap(d[i].after)[RoutedCol(src_db_tbs[idx], c)],
                                      src_db_type, dst_db_type)

\* compare_row_data returned true for the routed table t on a row whose column v
\* is held by the destination column w under another type
C9_Witness ==
    /\ row_result = "true" /\ src_db_tbs[idx] = <<"s", "t">>
    /\ dst_db_tbs[idx] = <<"s", "u">>
    /\ Len(Unwrap(src_data)) >= 1
    /\ "v" \in DOMAIN Unwrap(Unwrap(src_data)[1].after)
    /\ Unwrap(Unwrap(dst_data)[1].after)["w"] # Unwrap(Unwrap(src_data)[1].after)["v"]

----------------------------------------------------------------------------
(* The test runner and the replication task it drives: RdbTestRunner with a CDC
   or snapshot extractor, the buffer and a sinker *)

\* number of statements of src_dml.sql at most
MaxSqls == 3

\* the primary keys of the test rows, in ascending order
Keys == <<"1", "2">>

\* the tables of the test: src_ddl.sql creates t, k and f at the source; the router
\* sends t to u; f is filtered
T == <<"s", "t">>

K == <<"s", "k">>

F == <<"s", "f">>

U == <<"s", "u">>

\* a table that src_dml.sql may create
G == <<"s", "g">>

DbTbs == {T, K, F, U, G}

\* a database whose tables were just created
EmptyDb == [db_tb \in DbTbs |-> {}]

\* a row of a table (pk int primary key, col text)
RowOf(col, k, v) ==
    [c \in {"pk", col} |-> IF c = "pk" THEN ColValue("Int", k) ELSE ColValue("Str", v)]

\* a statement of a .sql file: its leading keyword, its table, and the row it writes
\* (of a delete, the row it removes by key)
Sql(op, db_tb, row) == [op |-> op, db_tb |-> db_tb, row |-> row]

\* src_ddl.sql
SrcDdlSqls == <<Sql("create", T, <<>>), Sql("create", K, <<>>), Sql("create", F, <<>>)>>

\* the statements src_dml.sql may hold
SrcSqls ==
    {Sql("insert", T, RowOf("v", "1", "a")), Sql("insert", T, RowOf("v", "2", "a")),
     Sql("update", T, RowOf("v", "1", "b")), Sql("delete", T, RowOf("v", "1", "")),
     Sql("insert", K, RowOf("v", "1", "a")), Sql("insert", F, RowOf("v", "1", "a")),
     Sql("create", G, <<>>)}

Scripts(n) == UNION {[1..len -> SrcSqls] : len \in 0..n}

\* the forms of dst_dml.sql: empty, a row under a key the source may hold, a row
\* under another key
DstDmls ==
    {<<>>, <<Sql("insert", U, RowOf("w", "1", "z"))>>,
     <<Sql("insert", U, RowOf("w", "2", "z"))>>}

\* RowData of an update and of a delete, as the replication stream carries them
UpdateRowData(schema, tb, before, after) ==
    [schema |-> schema, tb |-> tb, row_type |-> "Update",
     before |-> Some(before), after |-> Some(after)]

DeleteRowData(schema, tb, before) ==
    [schema |-> schema, tb |-> tb, row_type |-> "Delete",
     before |-> Some(before), after |-> None]

\* one statement executed by the database: st is the state of the execution so far,
\* [ok, db, log]; an insert under an existing key is an error, an update or delete
\* of a missing key changes nothing; every change of a row is appended to the commit
\* log; a create table (if not exists) changes no row
ExecuteSql(st, sql) ==
    LET tb == sql.db_tb
        old == {r \in st.db[tb] : r["pk"] = sql.row["pk"]}
    IN IF ~st.ok \/ sql.op = "create" THEN st
       ELSE IF sql.op = "insert"
       THEN IF old # {} THEN [st EXCEPT !.ok = FALSE]
            ELSE [ok |-> TRUE,
                  db |-> [st.db EXCEPT ![tb] = @ \cup {sql.row}],
                  log |-> Append(st.log, InsertRowData(tb[1], tb[2], sql.row))]
       ELSE IF old = {} THEN st
       ELSE IF sql.op = "update"
       THEN [ok |-> TRUE,
             db |-> [st.db EXCEPT ![tb] = (@ \ old) \cup {sql.row}],
             log |-> Append(st.log, UpdateRowData(tb[1], tb[2], Unwrap(old), sql.row))]
       ELSE [ok |-> TRUE,
             db |-> [st.db EXCEPT ![tb] = @ \ old],
             log |-> Append(st.log, DeleteRowData(tb[1], tb[2], Unwrap(old)))]

\* RdbUtil::execute_sqls_pg: the statements one after the other, up to the first error
RECURSIVE ExecuteSqlsFrom(_, _, _)
ExecuteSqlsFrom(st, sqls, i) ==
    IF i > Len(sqls) THEN st ELSE ExecuteSqlsFrom(ExecuteSql(st, sqls[i]), sqls, i + 1)

\* execute_src_sqls / execute_dst_sqls on a database
execute_sqls(db, sqls) == ExecuteSqlsFrom([ok |-> TRUE, db |-> db, log |-> <<>>], sqls, 1)

\* mutant of Phases: the deletes are executed before the inserts and the updates
PhasesDeleteFirst == <<"delete", "insert", "update">>

\* execute_test_sqls_and_compare executes the inserts, then the updates, then the
\* deletes of src_dml.sql
Phases == <<"insert", "update", "delete">>

\* the list a statement of src_dml.sql is pushed to: by its leading keyword, and
\* src_delete_sqls for anything that is neither an insert nor an update
SqlClass(sql) ==
    IF sql.op = "insert" THEN "insert" ELSE IF sql.op = "update" THEN "update" ELSE "delete"

\* src_insert_sqls, src_update_sqls, src_delete_sqls
PhaseSqls(sqls, class) == SelectSeq(sqls, LAMBDA sql : SqlClass(sql) = class)

\* RdbUtil::fetch_data_pg: the rows of a table as Insert RowData, ordered by key
Fetch(db, db_tb) ==
    LET ks == SelectSeq(Keys, LAMBDA k : \E r \in db[db_tb] : r["pk"].v = k)
    IN [i \in 1..Len(ks) |->
           InsertRowData(db_tb[1], db_tb[2], CHOOSE r \in db[db_tb] : r["pk"].v = ks[i])]

\* get_compare_db_tbs_from_sqls: the tables of the create-table statements, in order
get_compare_db_tbs_from_sqls(sqls) ==
    LET creates == SelectSeq(sqls, LAMBDA sql : sql.op = "create")
    IN [i \in 1..Len(creates) |-> creates[i].db_tb]

\* mutant of SrcDbTbs: src_dml.sql is not parsed
SrcDbTbsDdlOnly(dml_sqls) == get_compare_db_tbs_from_sqls(SrcDdlSqls)

\* get_compare_db_tbs, first half: the tables of src_ddl.sql followed by those of
\* src_dml.sql
SrcDbTbs(dml_sqls) ==
    get_compare_db_tbs_from_sqls(SrcDdlSqls) \o get_compare_db_tbs_from_sqls(dml_sqls)

\* get_compare_db_tbs: the source tables and, position by position, the tables the
\* router maps them to
get_compare_db_tbs(dml_sqls) ==
    [src |-> SrcDbTbs(dml_sqls), dst |-> DstDbTbs(SrcDbTbs(dml_sqls))]

\* Vec::remove(i), with the indexes of a sequence
RemoveAt(seq, i) == SubSeq(seq, 1, i - 1) \o SubSeq(seq, i + 1, Len(seq))

\* mutant of RemoveFilteredFrom: the filtered tables are removed from src_db_tbs only
RECURSIVE RemoveFilteredSrcOnly(_, _)
RemoveFilteredSrcOnly(db_tbs, i) ==
    IF i = 0 THEN db_tbs
    ELSE IF db_tbs.src[i] \in get_filtered_db_tbs
         THEN RemoveFilteredSrcOnly([src |-> RemoveAt(db_tbs.src, i), dst |-> db_tbs.dst],
                                    i - 1)
         ELSE RemoveFilteredSrcOnly(db_tbs, i - 1)

\* run_ddl_test: the loop over the indexes in reverse, from i down, that removes
\* the filtered tables from both vectors
RECURSIVE RemoveFilteredFrom(_, _)
RemoveFilteredFrom(db_tbs, i) ==
    IF i = 0 THEN db_tbs
    ELSE IF db_tbs.src[i] \in get_filtered_db_tbs
         THEN RemoveFilteredFrom([src |-> RemoveAt(db_tbs.src, i),
                                  dst |-> RemoveAt(db_tbs.dst, i)], i - 1)
         ELSE RemoveFilteredFrom(db_tbs, i - 1)

\* compare_data_for_tbs from index i on, against the databases as they are: the
\* results it may come to
RECURSIVE CompareFrom(_, _, _, _, _, _, _)
CompareFrom(i, src_tbs, dst_tbs, sdb, ddb, src_type, dst_type) ==
    IF i > Len(src_tbs) THEN {"Ok(true)"}
    ELSE LET outs ==
                 IF src_tbs[i] \in get_filtered_db_tbs
                 THEN {FilteredOutcome(Fetch(ddb, dst_tbs[i]))}
                 ELSE {TbDataOutcome(r) :
                          r \in compare_row_data(Fetch(sdb, src_tbs[i]), Fetch(ddb, dst_tbs[i]),
                                                 get_col_map(src_tbs[i][1], src_tbs[i][2]),
                                                 src_type, dst_type)}
         IN (outs \ {"next"})
            \cup (IF "next" \in outs
                  THEN CompareFrom(i + 1, src_tbs, dst_tbs, sdb, ddb, src_type, dst_type)
                  ELSE {})

compare_data_for_tbs(src_tbs, dst_tbs, sdb, ddb, src_type, dst_type) ==
    CompareFrom(1, src_tbs, dst_tbs, sdb, ddb, src_type, dst_type)

\* the sinker writes a routed row to the destination: an idempotent upsert of the
\* after image, a keyed delete of the before image
SinkRow(db, rd) ==
    LET gone == {r["pk"] : r \in rd.before \cup rd.after}
    IN [db EXCEPT ![<<rd.schema, rd.tb>>] = {r \in @ : r["pk"] \notin gone} \cup rd.after]

\* the scan of a snapshot task: every row of every table of the source, table by
\* table, ordered by key
RECURSIVE ScanFrom(_, _, _)
ScanFrom(db, tbs, i) ==
    IF i > Len(tbs) THEN <<>> ELSE Fetch(db, tbs[i]) \o ScanFrom(db, tbs, i + 1)

Scan(db) == ScanFrom(db, get_compare_db_tbs_from_sqls(SrcDdlSqls), 1)

\* mutant of SnapshotSteps: the task is started before the test data is written
SnapshotStepsTaskFirst == <<"ddl", "start", "dml", "compare">>

\* the steps of run_snapshot_test, in order
SnapshotSteps == <<"ddl", "dml", "start", "compare">>

\* the step of run_snapshot_test after the given one
StepAfter(step) ==
    LET i == CHOOSE j \in 1..Len(SnapshotSteps) : SnapshotSteps[j] = step
    IN IF i = Len(SnapshotSteps) THEN "done" ELSE SnapshotSteps[i + 1]

\* what no step of the runner or of the task it drives changes
runFixed == <<kind, structVars, checkVars, filtered_db_tbs, src_db_type, dst_db_type,
              idx, src_data, dst_data, cmp_pc, row_result, src_dml_sqls, dst_dml_sqls>>

\* execute_test_ddl_sqls: the tables are created on both sides
RunDdl ==
    /\ run_pc = "ddl"
    /\ src_db' = EmptyDb /\ dst_db' = EmptyDb
    /\ run_pc' = IF kind = "snapshot" THEN StepAfter("ddl") ELSE "spawn"
    /\ UNCHANGED <<runFixed, pc, pending, buffer, popped, shut_down, tried, src_db_tbs,
                   dst_db_tbs, cmp_result, phase, stream, stream_pos>>

\* run_cdc_test, run_ddl_test: spawn_task starts the CDC task, which reads the
\* replication stream from here on
RunSpawnTask ==
    /\ run_pc = "spawn"
    /\ pc' = "stream" /\ stream' = <<>> /\ stream_pos' = 0
    /\ run_pc' = "exec" /\ phase' = 1
    /\ UNCHANGED <<runFixed, pending, buffer, popped, shut_down, tried, src_db_tbs,
                   dst_db_tbs, cmp_result, src_db, dst_db>>

\* execute_test_sqls_and_compare: execute_src_sqls on the list of the phase;
\* run_ddl_test: execute_src_sqls on all of src_dml.sql. The changes enter the
\* replication stream in commit order; an SQL error is returned
RunExecSrcSqls ==
    /\ run_pc = "exec"
    /\ LET sqls == IF kind = "ddl" THEN src_dml_sqls
                   ELSE PhaseSqls(src_dml_sqls, Phases[phase])
           st == execute_sqls(src_db, sqls)
       IN /\ src_db' = st.db
          /\ stream' = stream \o st.log
          /\ run_pc' = IF ~st.ok THEN "error"
                       ELSE IF kind = "ddl" \/ phase = 1 \/ sqls # <<>>
                       THEN "sleep" ELSE "compare"
    /\ UNCHANGED <<runFixed, pc, pending, buffer, popped, shut_down, tried, src_db_tbs,
                   dst_db_tbs, cmp_result, phase, dst_db, stream_pos>>

\* TimeUtil::sleep_millis(parse_millis) is over
RunSleep ==
    /\ run_pc = "sleep"
    /\ run_pc' = "compare"
    /\ UNCHANGED <<runFixed, pc, pending, buffer, popped, shut_down, tried, src_db_tbs,
                   dst_db_tbs, cmp_result, phase, src_db, dst_db, stream, stream_pos>>

\* get_compare_db_tbs (before the first comparison), in run_ddl_test the removal
\* of the filtered tables, and compare_data_for_tbs: an assertion that fails inside
\* ends the test; execute_test_sqls_and_compare drops the bool
RunCompare ==
    /\ run_pc = "compare"
    /\ LET first == kind \in {"snapshot", "ddl"} \/ phase = 1
           got == get_compare_db_tbs(src_dml_sqls)
           kept == IF kind = "ddl" THEN RemoveFilteredFrom(got, Len(got.src)) ELSE got
           src_tbs == IF first THEN kept.src ELSE src_db_tbs
           dst_tbs == IF first THEN kept.dst ELSE dst_db_tbs
       IN /\ src_db_tbs' = src_tbs /\ dst_db_tbs' = dst_tbs
          /\ cmp_result' \in compare_data_for_tbs(src_tbs, dst_tbs, src_db, dst_db,
                                                  src_db_type, dst_db_type)
    /\ IF cmp_result' = "panic"
       THEN run_pc' = "panicked" /\ UNCHANGED phase
       ELSE IF kind = "snapshot" THEN run_pc' = StepAfter("compare") /\ UNCHANGED phase
       ELSE IF kind = "ddl" THEN run_pc' = "finish" /\ UNCHANGED phase
       ELSE IF phase < Len(Phases) THEN run_pc' = "exec" /\ phase' = phase + 1
       ELSE run_pc' = "finish" /\ UNCHANGED phase
    /\ UNCHANGED <<runFixed, pc, pending, buffer, popped, shut_down, tried,
                   src_db, dst_db, stream, stream_pos>>

\* run_cdc_test, run_ddl_test: base.wait_task_finish(&task) ends the task
RunWaitTaskFinish ==
    /\ run_pc = "finish"
    /\ run_pc' = "done" /\ pc' = "aborted"
    /\ UNCHANGED <<runFixed, pending, buffer, popped, shut_down, tried, src_db_tbs,
                   dst_db_tbs, cmp_result, phase, src_db, dst_db, stream, stream_pos>>

\* run_snapshot_test: execute_test_dml_sqls executes src_dml.sql on the source, then
\* dst_dml.sql on the destination
RunDml ==
    /\ run_pc = "dml"
    /\ LET s == execute_sqls(src_db, src_dml_sqls)
           d == execute_sqls(dst_db, dst_dml_sqls)
       IN /\ src_db' = s.db
          /\ dst_db' = IF s.ok THEN d.db ELSE dst_db
          /\ run_pc' = IF s.ok /\ d.ok THEN StepAfter("dml") ELSE "error"
    /\ UNCHANGED <<runFixed, pc, pending, buffer, popped, shut_down, tried, src_db_tbs,
                   dst_db_tbs, cmp_result, phase, stream, stream_pos>>

\* run_snapshot_test: base.start_task() starts the snapshot task, which scans the
\* source tables, and awaits it
RunStartTask ==
    /\ run_pc = "start"
    /\ pc' = "stream" /\ stream' = Scan(src_db) /\ stream_pos' = 0
    /\ run_pc' = "task"
    /\ UNCHANGED <<runFixed, pending, buffer, popped, shut_down, tried, src_db_tbs,
                   dst_db_tbs, cmp_result, phase, src_db, dst_db>>

\* start_task().await? returns: Ok when the task has finished, its error otherwise
RunTaskOver ==
    /\ run_pc = "task" /\ pc \in {"returned", "error"}
    /\ run_pc' = IF pc = "returned" THEN StepAfter("start") ELSE "error"
    /\ UNCHANGED <<runFixed, pc, pending, buffer, popped, shut_down, tried, src_db_tbs,
                   dst_db_tbs, cmp_result, phase, src_db, dst_db, stream, stream_pos>>

\* the extractor takes the next entry of its stream: a row of a filtered table is
\* skipped, any other row is handed to BaseExtractor::push_row
ExtractorRead ==
    /\ pc = "stream" /\ pending = None /\ stream_pos < Len(stream)
    /\ stream_pos' = stream_pos + 1
    /\ LET row_data == stream[stream_pos + 1]
       IN IF <<row_data.schema, row_data.tb>> \in filtered_db_tbs
          THEN UNCHANGED <<pending, tried>>
          ELSE /\ pending' = Some(DmlItem(row_data))
               /\ tried' = Append(tried, DmlItem(row_data))
    /\ UNCHANGED <<runFixed, pc, buffer, popped, shut_down, src_db_tbs, dst_db_tbs,
                   cmp_result, run_pc, phase, src_db, dst_db, stream>>

\* the snapshot extractor is past its last row and calls wait_task_finish
ExtractorEnd ==
    /\ kind = "snapshot" /\ pc = "stream" /\ pending = None /\ stream_pos = Len(stream)
    /\ pc' = "wait"
    /\ UNCHANGED <<runFixed, pending, buffer, popped, shut_down, tried, src_db_tbs,
                   dst_db_tbs, cmp_result, run_pc, phase, src_db, dst_db, stream, stream_pos>>

\* wait_task_finish returns
ExtractorReturn ==
    /\ pc = "wait" /\ WaitTaskFinishDone(buffer, shut_down)
    /\ pc' = "returned"
    /\ UNCHANGED <<runFixed, pending, buffer, popped, shut_down, tried, src_db_tbs,
                   dst_db_tbs, cmp_result, run_pc, phase, src_db, dst_db, stream, stream_pos>>

\* BaseExtractor::push_row completes: the row is on the buffer, or the push was
\* dropped under shutdown and the extractor ends with the error
RunPush ==
    /\ pc = "stream" /\ pending # None
    /\ LET r == BasePush(buffer, Unwrap(pending), shut_down)
       IN /\ r.res # "Full"
          /\ buffer' = r.buffer
          /\ pc' = IF r.res = "Err" THEN "error" ELSE pc
    /\ pending' = None
    /\ UNCHANGED <<runFixed, popped, shut_down, tried, src_db_tbs, dst_db_tbs,
                   cmp_result, run_pc, phase, src_db, dst_db, stream, stream_pos>>

\* the sinker pops the head of the buffer and writes it to the destination
RunSinkerPop ==
    /\ pc # "aborted" /\ buffer # <<>>
    /\ popped' = Append(popped, Head(buffer))
    /\ buffer' = Tail(buffer)
    /\ dst_db' = SinkRow(dst_db, Head(buffer).row_data)
    /\ UNCHANGED <<runFixed, pc, pending, shut_down, tried, src_db_tbs, dst_db_tbs,
                   cmp_result, run_pc, phase, src_db, stream, stream_pos>>

\* the orchestrator raises the shutdown flag of the running task
RunRaiseShutdown ==
    /\ pc \in {"stream", "wait"} /\ ~shut_down
    /\ shut_down' = TRUE
    /\ UNCHANGED <<runFixed, pc, pending, buffer, popped, tried, src_db_tbs, dst_db_tbs,
                   cmp_result, run_pc, phase, src_db, dst_db, stream, stream_pos>>

\* a test directory: the kind of the task, src_dml.sql and (snapshot) dst_dml.sql
InitRun ==
    /\ kind \in {"cdc", "snapshot", "ddl"}
    /\ pc = "off"
    /\ fetched = FetchedOf([k \in Range(ExtractOrder) |-> 0])
    /\ stage = 1 /\ todo = {} /\ file = <<>> /\ pos = 0 /\ check_logs = <<>> /\ rows = <<>>
    /\ pending = None /\ buffer = <<>> /\ popped = <<>> /\ shut_down = FALSE
    /\ tried = <<>>
    /\ src_db_tbs = <<>> /\ dst_db_tbs = <<>>
    /\ filtered_db_tbs = get_filtered_db_tbs
    /\ src_db_type = "Pg" /\ dst_db_type = "Pg"
    /\ idx = 0 /\ src_data = None /\ dst_data = None
    /\ cmp_pc = "off" /\ row_result = "none" /\ cmp_result = "none"
    /\ run_pc = "ddl" /\ phase = 0
    /\ src_dml_sqls \in Scripts(MaxSqls)
    /\ dst_dml_sqls \in (IF kind = "snapshot" THEN DstDmls ELSE {<<>>})
    /\ src_db = <<>> /\ dst_db = <<>>
    /\ stream = <<>> /\ stream_pos = 0

NextRun ==
    \/ RunDdl \/ RunSpawnTask \/ RunExecSrcSqls \/ RunSleep \/ RunCompare
    \/ RunWaitTaskFinish \/ RunDml \/ RunStartTask \/ RunTaskOver
    \/ ExtractorRead \/ ExtractorEnd \/ ExtractorReturn \/ RunPush \/ RunSinkerPop
    \/ RunRaiseShutdown

SpecRun == InitRun /\ [][NextRun]_vars

----------------------------------------------------------------------------
(* Claims about the replication task *)

\* the source tables the task replicates
NonFiltered ==
    {db_tb \in Range(get_compare_db_tbs_from_sqls(SrcDdlSqls)) : db_tb \notin filtered_db_tbs}

\* the destination table of a source table, as the router is configured
RoutedTb(db_tb) == IF db_tb \in DOMAIN TbMap THEN TbMap[db_tb] ELSE db_tb

\* the rows of a source table under the destination names of their columns
RoutedRows(db_tb, tb_rows) ==
    {[d \in {RoutedCol(db_tb, c) : c \in DOMAIN r} |->
         r[CHOOSE c \in DOMAIN r : RoutedCol(db_tb, c) = d]] : r \in tb_rows}

IsPrefix(a, b) == Len(a) <= Len(b) /\ SubSeq(b, 1, Len(a)) = a

\* the rows of one source table the extractor has emitted, in stream order, as the
\* items they are pushed as
EmittedOf(db_tb) ==
    LET ev == SelectSeq(SubSeq(stream, 1, stream_pos),
                        LAMBDA e : <<e.schema, e.tb>> = db_tb)
    IN [i \in 1..Len(ev) |-> DmlItem(ev[i])]

\* the items of a sequence that belong to one destination table
ItemsOf(items, db_tb) ==
    SelectSeq(items, LAMBDA it : <<it.row_data.schema, it.row_data.tb>> = db_tb)

\* C4 (ordering): for every replicated table the extractor has handed its events to
\* the push in stream order, which is the commit order of the source; the items the
\* sinker has dequeued, and those together with the items still on the buffer, are
\* a prefix of them in that order; and the buffer as a whole is FIFO: what was
\* dequeued followed by what is buffered is a prefix of what was pushed
C4_Ordering ==
    /\ IsPrefix(popped \o buffer, tried)
    /\ \A db_tb \in NonFiltered :
          /\ ItemsOf(tried, RoutedTb(db_tb)) = EmittedOf(db_tb)
          /\ IsPrefix(ItemsOf(popped, RoutedTb(db_tb)), EmittedOf(db_tb))
          /\ IsPrefix(ItemsOf(popped \o buffer, RoutedTb(db_tb)), EmittedOf(db_tb))

\* the sinker of a CDC task has dequeued two events of t and, in between or around
\* them, one of k
C4_Witness ==
    /\ kind = "cdc"
    /\ Len(ItemsOf(popped, U)) >= 2 /\ Len(ItemsOf(popped, K)) >= 1
    /\ ItemsOf(popped, U)[1] # ItemsOf(popped, U)[2]

\* the CDC task has nothing left to do: it is past the end of the stream, no push
\* is in progress and the buffer is drained
Idle ==
    /\ kind = "cdc" /\ pc = "stream"
    /\ stream_pos = Len(stream) /\ pending = None /\ buffer = <<>>

\* the destination equals the source on every replicated table
Converged ==
    \A db_tb \in NonFiltered : dst_db[RoutedTb(db_tb)] = RoutedRows(db_tb, src_db[db_tb])

\* the basic scenario: insert, update and delete of one key
BasicScript ==
    <<Sql("insert", T, RowOf("v", "1", "a")), Sql("update", T, RowOf("v", "1", "b")),
      Sql("delete", T, RowOf("v", "1", ""))>>

\* C6 (CDC convergence): whenever the started CDC task is idle, the destination
\* equals the source on every non-filtered table, whatever part of the inserts,
\* updates and deletes has been applied; a comparison made while it is idle passes;
\* and in the basic scenario of run_cdc_test the destination is empty once the
\* deletes were applied and the task is idle, and when the test is done
C6_CdcConvergence ==
    /\ [](Idle => Converged)
    /\ [][Idle /\ run_pc = "compare" => run_pc' # "panicked"]_vars
    /\ [](kind = "cdc" /\ src_dml_sqls = BasicScript
             /\ (run_pc = "done" \/ (Idle /\ phase = Len(Phases) /\ run_pc # "exec"))
          => \A db_tb \in DbTbs : dst_db[db_tb] = {})

\* the basic scenario has run to its end through three passing comparisons
C6_Witness ==
    /\ kind = "cdc" /\ src_dml_sqls = BasicScript
    /\ run_pc = "done" /\ Len(popped) = 3

\* the snapshot task has completed
Completed == kind = "snapshot" /\ pc = "returned"

\* same row count and compare_row_data true on every replicated table
Conserved ==
    \A db_tb \in NonFiltered :
       /\ Cardinality(dst_db[RoutedTb(db_tb)]) = Cardinality(src_db[db_tb])
       /\ compare_row_data(Fetch(src_db, db_tb), Fetch(dst_db, RoutedTb(db_tb)),
                           get_col_map(db_tb[1], db_tb[2]), src_db_type, dst_db_type)
          = {"true"}

\* every row dst_dml.sql wrote has the key of a row of the source table
DstWithinSrc ==
    \A i \in DOMAIN dst_dml_sqls :
       \E db_tb \in NonFiltered :
          /\ RoutedTb(db_tb) = dst_dml_sqls[i].db_tb
          /\ \E r \in src_db[db_tb] : r["pk"] = dst_dml_sqls[i].row["pk"]

----------------------------------------------------------------------------
(* Claims about the check extractor *)

\* a check log of the batch names a column that col_type_map does not hold, or
\* carries a value that from_str cannot parse for the type of its column
BadCheckLog(check_log) ==
    \/ check_log.cols[1] \notin DOMAIN ColTypeMap
    \/ /\ check_log.cols[1] \in DOMAIN ColTypeMap
       /\ check_log.col_values[1] # None
       /\ from_str(ColTypeMap[check_log.cols[1]], Unwrap(check_log.col_values[1])) = None

\* C11 (check extractor error handling), as stated: batch_extract on a batch with an
\* unknown column or an unparseable value, or whose table meta is missing, ends by
\* returning an Error value, with no row of the batch pushed and the position in
\* the check-log file as it was
C11_ErrorsSurface ==
    [][/\ kind = "check" /\ pc = "batch"
       /\ \E i \in DOMAIN check_logs : BadCheckLog(check_logs[i])
       => /\ pc' \in {"batch", "error"}
          /\ tried' = tried /\ pos' = pos]_vars

\* the shutdown flag is up while batch_extract streams the rows of its query
StreamingUnderShutdown == kind = "check" /\ pc = "rows" /\ shut_down

----------------------------------------------------------------------------
(* Further claims about the row comparison engine *)

\* the rows fetched for the table at the index differ: in their number, by a source
\* column whose destination column is missing, or by a value
TbDataMismatch ==
    LET s == Unwrap(src_data)
        d == Unwrap(dst_data)
    IN \/ Len(s) # Len(d)
       \/ \E i \in 1..Len(s) :
             \E c \in DOMAIN Unwrap(s[i].after) :
                \/ RoutedCol(src_db_tbs[idx], c) \notin DOMAIN Unwrap(d[i].after)
                \/ ~EnginePairEq(Unwrap(s[i].after)[c],
                                 Unwrap(d[i].after)[RoutedCol(src_db_tbs[idx], c)],
                                 src_db_type, dst_db_type)

\* C13 (consistency failures are never recovered): compare_data_for_tbs moves past
\* an index only if its source table is filtered and the destination rows are empty,
\* or compare_tb_data returned true for it; it returns Ok(true) only past the last
\* index; a row-count mismatch, a missing destination column or a value mismatch in
\* a non-filtered table never yields true, and the assertion on anything but true
\* aborts the comparison
C13_NeverRecovered ==
    /\ [][idx' = idx + 1 =>
             \/ AtFiltered /\ src_data = None /\ dst_data = Some(<<>>)
             \/ ~AtFiltered /\ src_data # None /\ row_result = "true"]_vars
    /\ [](cmp_result = "Ok(true)" => idx = Len(src_db_tbs) + 1)
    /\ [](cmp_pc = "assert" /\ src_data # None /\ TbDataMismatch => row_result # "true")
    /\ [][cmp_pc = "assert" /\ src_data # None /\ row_result # "true" /\ cmp_pc' # cmp_pc
             => cmp_pc' = "done" /\ cmp_result' = "panic"]_vars
    /\ [][cmp_pc = "assert" /\ AtFiltered /\ dst_data # Some(<<>>) /\ cmp_pc' # cmp_pc
             => cmp_pc' = "done" /\ cmp_result' = "panic"]_vars

\* a value mismatch in the second table ended the comparison in the assertion
C13_Witness ==
    /\ cmp_result = "panic" /\ cmp_pc = "done" /\ idx = 2
    /\ src_data # None /\ row_result = "false" /\ Len(Unwrap(src_data)) = Len(Unwrap(dst_data))

----------------------------------------------------------------------------
(* compare_col_value on its own *)

\* the values compare_col_value is applied to: integers, a string with the text of
\* one of them, floats, the NaN of both float widths, and the null value
ColVals ==
    {ColValue("Int", "1"), ColValue("Int", "2"), ColValue("Str", "1"),
     ColValue("Float", "1.5"), ColValue("Float", "NaN"), ColValue("Double", "NaN"),
     ColValueNone}

\* a call of compare_col_value with a source value, a destination value and the
\* engines of both sides
InitCol ==
    /\ PipeIdle /\ RunIdle
    /\ src_db_tbs = <<>> /\ dst_db_tbs = <<>> /\ filtered_db_tbs = {}
    /\ src_db_type \in DbTypes /\ dst_db_type \in DbTypes
    /\ idx = 0
    /\ src_data \in {Some(v) : v \in ColVals} /\ dst_data \in {Some(v) : v \in ColVals}
    /\ cmp_pc = "col" /\ row_result = "none" /\ cmp_result = "none"

\* compare_col_value returns
ColCompare ==
    /\ cmp_pc = "col"
    /\ row_result' = IF compare_col_value(Unwrap(src_data), Unwrap(dst_data),
                                          src_db_type, dst_db_type)
                     THEN "true" ELSE "false"
    /\ cmp_pc' = "col_done"
    /\ UNCHANGED <<runVars, pipeVars, src_db_tbs, dst_db_tbs, filtered_db_tbs, src_db_type,
                   dst_db_type, idx, src_data, dst_data, cmp_result>>

NextCol == ColCompare

SpecCol == InitCol /\ [][NextCol]_vars

\* C14 (column equality rule): compare_col_value(s, d, es, ed) is true exactly when
\* s = d, or s and d are both NaN, or es differs from ed and the to_option_string
\* projections of s and d are equal; NaN compares equal to NaN for every engine
\* pair; with es = ed two unequal values that are not both NaN never compare equal
C14_ColumnEqualityRule ==
    cmp_pc = "col_done" =>
       LET s == Unwrap(src_data)
           d == Unwrap(dst_data)
       IN /\ row_result = "true" <=>
                \/ s = d
                \/ is_nan(s) /\ is_nan(d)
                \/ src_db_type # dst_db_type /\ to_option_string(s) = to_option_string(d)
          /\ is_nan(s) /\ is_nan(d) => row_result = "true"
          /\ src_db_type = dst_db_type /\ s # d /\ ~(is_nan(s) /\ is_nan(d))
                => row_result = "false"

\* two values of different type and the same text compared equal across engines
C14_Witness ==
    /\ cmp_pc = "col_done" /\ row_result = "true"
    /\ src_db_type # dst_db_type
    /\ Unwrap(src_data) = ColValue("Int", "1") /\ Unwrap(dst_data) = ColValue("Str", "1")

----------------------------------------------------------------------------
(* Further claims about the struct extractor *)

\* every object the fetcher returns, of the three kinds
AllFetched == fetched["table"] \cup fetched["index"] \cup fetched["constraint"]

\* C15 (shape of the struct extractor's items): every item the struct extractor
\* hands to the push, and so every item on the buffer or dequeued from it, is a Ddl
\* item with ddl_type Unknown, an empty query, the schema of the extractor and
\* meta = Some(a fetched StructModel); no fetched object is pushed twice; and once
\* the three loops are through, every fetched object has been pushed exactly once
C15_DdlItemShape ==
    kind = "struct" =>
        /\ \A i \in 1..Len(tried) :
              /\ tried[i].type = "Ddl"
              /\ DOMAIN tried[i] = {"type", "ddl_data"}
              /\ tried[i].ddl_data.ddl_type = "Unknown"
              /\ tried[i].ddl_data.query = ""
              /\ tried[i].ddl_data.schema = Db
              /\ \E meta \in AllFetched : tried[i].ddl_data.meta = Some(meta)
        /\ \A i, j \in 1..Len(tried) : tried[i] = tried[j] => i = j
        /\ \A i \in 1..Len(Accepted) : \E j \in 1..Len(tried) : Accepted[i] = tried[j]
        /\ pc \in {"wait", "returned"} =>
              /\ Len(tried) = Cardinality(AllFetched)
              /\ \A meta \in AllFetched :
                    Cardinality({i \in 1..Len(Accepted) :
                                    Accepted[i].ddl_data.meta = Some(meta)}) = 1

\* the extractor has returned after pushing objects of all three kinds, one of them
\* at least twice
C15_Witness ==
    /\ kind = "struct" /\ pc = "returned" /\ Len(popped) >= 4
    /\ \A k \in Range(ExtractOrder) : fetched[k] # {}

\* ---------------------------------------------------------------------------
\* Claims about the compared tables
\* ---------------------------------------------------------------------------

\* the tables of the create-table statements of src_ddl.sql followed by those of
\* src_dml.sql, repetitions kept
CreatedTbs ==
    LET sqls == SrcDdlSqls \o src_dml_sqls
        at == SelectSeq([i \in 1..Len(sqls) |-> i], LAMBDA i : sqls[i].op = "create")
    IN [n \in 1..Len(at) |-> sqls[at[n]].db_tb]

\* a comparison was made
Compared == cmp_result # "none"

\* C16 as stated: the tables compared are the union of the created tables of both
\* scripts, with every table of filtered_tbs.txt removed
C16_AsStated ==
    Compared => Range(src_db_tbs) = Range(CreatedTbs) \ get_filtered_db_tbs

\* C16 (compared tables): get_compare_db_tbs returns the tables of the CREATE TABLE
\* statements of the DDL script followed by those of the DML script, in order and
\* with the filtered tables among them; run_ddl_test alone removes the filtered
\* tables before it compares, the other tests compare the whole list
C16_CompareDbTbs ==
    /\ get_compare_db_tbs(src_dml_sqls).src = CreatedTbs
    /\ get_filtered_db_tbs \subseteq Range(get_compare_db_tbs(src_dml_sqls).src)
    /\ Compared =>
          src_db_tbs = IF kind = "ddl"
                       THEN SelectSeq(CreatedTbs,
                                      LAMBDA db_tb : db_tb \notin get_filtered_db_tbs)
                       ELSE CreatedTbs

\* a CDC test compared four tables, the filtered one and the one that src_dml.sql
\* creates among them
C16_Witness ==
    /\ Compared /\ kind = "cdc"
    /\ Len(src_db_tbs) = 4 /\ F \in Range(src_db_tbs) /\ G \in Range(src_db_tbs)

\* ---------------------------------------------------------------------------
\* Claims about a failed push of the struct extractor
\* ---------------------------------------------------------------------------

\* the underlying push of the struct extractor's item fails in this step: it finds
\* the buffer full with the shutdown flag raised
StructPushFails ==
    /\ kind = "struct" /\ pending # None /\ pending' = None
    /\ Len(buffer) = BufferSize /\ shut_down

\* the objects the struct extractor has not handed to the push
Unpushed == {meta \in AllFetched : \A i \in DOMAIN tried : MetaOf(tried[i]) # meta}

\* C17 as stated: when the underlying push fails the error is discarded and the
\* extraction continues with the next object
C17_AsStated ==
    [][StructPushFails => pc' = "loop"]_vars

\* C17 (a failed push of the struct extractor): push_dt_data unwraps the result of
\* the underlying push, so when the underlying push fails the extractor panics with
\* the item left off the buffer, and from then on it hands no further object to the
\* push, fetches nothing and never returns
C17_PushErrorPanics ==
    /\ [][StructPushFails => pc' = "panicked" /\ buffer' = buffer /\ tried' = tried]_vars
    /\ [][kind = "struct" /\ pc = "panicked" =>
            /\ pc' = "panicked" /\ pending' = None
            /\ tried' = tried /\ todo' = todo /\ stage' = stage]_vars

\* a push of the struct extractor has failed with objects still to be pushed
C17_Witness ==
    /\ kind = "struct" /\ pc = "panicked" /\ shut_down
    /\ Accepted # tried /\ Unpushed # {}

\* ---------------------------------------------------------------------------
\* Claims about the termination of the struct extractor
\* ---------------------------------------------------------------------------

\* C18 as stated: once the shutdown flag is raised, extract() eventually returns
C18_AsStated ==
    (kind = "struct" /\ shut_down) ~> (pc = "returned")

\* C18 (termination of the struct extractor): under fairness, with a sinker that
\* keeps popping, once the shutdown flag is raised extract() eventually returns or
\* panics; it panics only when a fetch fails or a push finds the buffer full under
\* shutdown; once the last loop is over and the flag is raised it does return; it
\* returns only after every fetched table, index and constraint object was pushed
\* and popped; and no step returns while the flag is not raised, even when every
\* object has been pushed and the buffer is empty
C18_Termination ==
    /\ (kind = "struct" /\ shut_down) ~> (pc \in {"returned", "panicked"})
    /\ [][kind = "struct" /\ pc # "panicked" /\ pc' = "panicked"
            => pc = "fetch" \/ StructPushFails]_vars
    /\ (kind = "struct" /\ pc = "wait" /\ shut_down) ~> (pc = "returned")
    /\ [](kind = "struct" /\ pc = "returned"
            => shut_down /\ Unpushed = {} /\ popped = tried /\ buffer = <<>>)
    /\ [][kind = "struct" /\ ~shut_down' => pc' # "returned"]_vars
    /\ [](kind = "struct" /\ pc = "wait" /\ ~shut_down
            => ~ENABLED ExtractInternalReturn)

\* extract() has returned after six objects, two of each kind, went through a buffer
\* of two
C18_Witness ==
    /\ kind = "struct" /\ pc = "returned" /\ shut_down
    /\ Unpushed = {} /\ Len(popped) = 3 * MaxObjs

\* ---------------------------------------------------------------------------
\* Claims about the alignment of the compared tables
\* ---------------------------------------------------------------------------

\* the two vectors have equal length and each destination table is the one the
\* router maps the source table at the same index to
Aligned(src, dst) ==
    /\ Len(dst) = Len(src)
    /\ \A i \in 1..Len(src) : dst[i] = get_tb_map(src[i][1], src[i][2])

\* C19 (positional alignment): the vectors passed to compare_data_for_tbs have
\* equal length and dst_db_tbs[i] = get_tb_map(src_db_tbs[i]) for every i; so has
\* the result of get_compare_db_tbs, and so has what run_ddl_test's removal of the
\* filtered tables leaves of it, which is that result without the filtered tables,
\* the others in their order
C19_PositionalAlignment ==
    LET got == get_compare_db_tbs(src_dml_sqls)
        kept == RemoveFilteredFrom(got, Len(got.src))
    IN /\ Aligned(src_db_tbs, dst_db_tbs)
       /\ Aligned(got.src, got.dst)
       /\ Aligned(kept.src, kept.dst)
       /\ kept.src = SelectSeq(got.src, LAMBDA db_tb : db_tb \notin get_filtered_db_tbs)
       /\ Compared /\ kind = "ddl" => src_db_tbs = kept.src /\ dst_db_tbs = kept.dst

\* run_ddl_test compared t, k and g after it removed the filtered table f from
\* between them, t against the table u it is routed to
C19_Witness ==
    /\ Compared /\ kind = "ddl"
    /\ src_db_tbs = <<T, K, G>> /\ dst_db_tbs = <<U, K, G>>

\* ---------------------------------------------------------------------------
\* Claims about the batches of check logs
\* ---------------------------------------------------------------------------

\* a batch is in the hands of batch_extract
InBatch == kind = "check" /\ pc \in {"batch", "rows"}

\* C20 (batching of check logs): the batch handed to batch_extract is the lines of
\* the file that follow the lines of the earlier batches, at most batch_size of
\* them and all of the same (schema, table, log_type) as the first, and it is empty
\* only at the end of the file; every row batch_extract pushes, built from the
\* first entry, carries the routed table and the row type of every entry of the
\* batch; the position moves only when a batch is done, and then past exactly the
\* lines of that batch, so the lines are processed in file order, none skipped and
\* none twice
C20_Batching ==
    /\ [](InBatch =>
            /\ pos + Len(check_logs) <= Len(file)
            /\ check_logs = SubSeq(file, pos + 1, pos + Len(check_logs))
            /\ Len(check_logs) <= BatchSize
            /\ \A i \in DOMAIN check_logs : SameBatch(check_logs[1], check_logs[i])
            /\ check_logs = <<>> => pos = Len(file))
    /\ [][kind = "check" /\ pending = None /\ pending' # None =>
            \A i \in DOMAIN check_logs :
               LET row_data == Unwrap(pending').row_data
                   dst == get_tb_map(check_logs[i].schema, check_logs[i].tb)
               IN /\ row_data.schema = dst[1] /\ row_data.tb = dst[2]
                  /\ row_data.row_type = "Update" <=> check_logs[i].log_type = "Diff"]_vars
    /\ [][kind = "check" /\ pos' # pos =>
            /\ pc = "rows" /\ rows = <<>> /\ check_logs # <<>>
            /\ pos' = pos + Len(check_logs)]_vars
    /\ [][kind = "check" /\ check_logs' # check_logs =>
            /\ pc = "next_batch" /\ pc' = "batch"
            /\ pos' = pos]_vars

\* a second batch is under way: the first was cut at batch_size lines although the
\* line after it is of the same table and log type
C20_Witness ==
    /\ InBatch /\ pos = BatchSize /\ Len(file) = BatchSize + 1
    /\ check_logs = <<file[BatchSize + 1]>>
    /\ SameBatch(file[1], file[BatchSize + 1])

\* ---------------------------------------------------------------------------
\* Claims about the shape of the check extractor's rows
\* ---------------------------------------------------------------------------

\* the RowData invariant: Insert has after only, Delete has before only, Update
\* has both
WellShaped(row_data) ==
    CASE row_data.row_type = "Insert" -> row_data.after # None /\ row_data.before = None
      [] row_data.row_type = "Update" -> row_data.after # None /\ row_data.before # None
      [] row_data.row_type = "Delete" -> row_data.after = None /\ row_data.before # None
      [] OTHER -> FALSE

\* C21 (RowData shape): every RowData the check extractor pushed, whether it waits
\* in the push, is on the buffer or was dequeued from it, is an Insert with after
\* and no before or an Update with both before and after, and never a Delete; so
\* are the check rows build_check_row_datas builds for the query, all Inserts
C21_RowDataShape ==
    kind = "check" =>
       /\ \A i \in DOMAIN tried : tried[i].type = "Dml"
       /\ \A item \in Range(buffer) \cup Range(popped) \cup pending \cup Range(tried) :
             /\ WellShaped(item.row_data)
             /\ item.row_data.row_type \in {"Insert", "Update"}
       /\ LET built == build_check_row_datas(check_logs)
          IN \A i \in DOMAIN built.datas :
                /\ WellShaped(built.datas[i])
                /\ built.datas[i].row_type = "Insert"

\* the buffer holds an Insert of a Miss batch and an Update of a Diff batch
C21_Witness ==
    /\ kind = "check" /\ Len(buffer) = 2
    /\ {buffer[1].row_data.row_type, buffer[2].row_data.row_type} = {"Insert", "Update"}

\* ---------------------------------------------------------------------------
\* Claims about the shared flag and buffer
\* ---------------------------------------------------------------------------

\* the state the extractor owns is left as it is
ExtractorStays ==
    /\ pc' = pc /\ pending' = pending /\ tried' = tried
    /\ structVars' = structVars /\ checkVars' = checkVars

\* C22 (single writer): a step that changes the shutdown flag raises it and is no
\* step of the struct or the check extractor, whose position, loops and pushes it
\* leaves alone, as it does the buffer; the flag once raised stays raised; and the
\* buffer changes only by the extractor's push appending the item it was pushing,
\* or by the sinker taking the head while the extractor does not move
C22_SingleWriter ==
    /\ [][shut_down' # shut_down =>
            /\ ~shut_down /\ shut_down'
            /\ ExtractorStays /\ buffer' = buffer /\ popped' = popped]_vars
    /\ [][shut_down => shut_down']_vars
    /\ [][buffer' # buffer =>
            \/ /\ pending # None /\ pending' = None
               /\ buffer' = Append(buffer, Unwrap(pending))
               /\ popped' = popped
            \/ /\ buffer # <<>> /\ buffer' = Tail(buffer)
               /\ popped' = Append(popped, Head(buffer))
               /\ ExtractorStays]_vars
    /\ [][popped' # popped => buffer' = Tail(buffer) /\ ExtractorStays]_vars

\* the flag was raised while the check extractor was at work: it has left its loop
\* with rows of its own on the buffer and others already taken by the sinker
C22_Witness ==
    /\ kind = "check" /\ pc = "done" /\ shut_down
    /\ buffer # <<>> /\ popped # <<>>

----------------------------------------------------------------------------
(* compare_col_value as a relation *)

\* the values the relation is examined on: those of ColVals and a string with the
\* text of NaN
RelVals == ColVals \cup {ColValue("Str", "NaN")}

\* three values a, b, c and the engines of both sides
InitRel ==
    /\ PipeIdle /\ RunIdle
    /\ src_db_tbs = <<>> /\ dst_db_tbs = <<>> /\ filtered_db_tbs = {}
    /\ src_db_type \in DbTypes /\ dst_db_type \in DbTypes
    /\ idx = 0
    /\ src_data \in {Some(<<a, b, c>>) : a \in RelVals, b \in RelVals, c \in RelVals}
    /\ dst_data = None
    /\ cmp_pc = "rel" /\ row_result = "none" /\ cmp_result = "none"

\* compare_col_value is called on (a, a), (a, b), (b, a), (b, c) and (a, c) with the
\* engines as they are
RelCompare ==
    /\ cmp_pc = "rel"
    /\ LET vals == Unwrap(src_data)
           call(i, j) == compare_col_value(vals[i], vals[j], src_db_type, dst_db_type)
       IN row_result' = [aa |-> call(1, 1), ab |-> call(1, 2), ba |-> call(2, 1),
                         bc |-> call(2, 3), ac |-> call(1, 3)]
    /\ cmp_pc' = "rel_done"
    /\ UNCHANGED <<runVars, pipeVars, src_db_tbs, dst_db_tbs, filtered_db_tbs, src_db_type,
                   dst_db_type, idx, src_data, dst_data, cmp_result>>

NextRel == RelCompare

SpecRel == InitRel /\ [][NextRel]_vars

\* C23 (compare_col_value as a relation): for every engine pair (es, ed) and all
\* values a, b, c, a compares equal to a; a compares equal to b exactly when b
\* compares equal to a; and if a compares equal to b and b to c, under the same
\* (es, ed), then a compares equal to c
C23_EquivalencePerEnginePair ==
    cmp_pc = "rel_done" =>
       /\ row_result.aa
       /\ row_result.ab <=> row_result.ba
       /\ row_result.ab /\ row_result.bc => row_result.ac

\* across engines a NaN float, a NaN double and the string NaN, three different
\* values, compared equal pair by pair
C23_Witness ==
    /\ cmp_pc = "rel_done" /\ src_db_type # dst_db_type
    /\ Unwrap(src_data) = <<ColValue("Str", "NaN"), ColValue("Float", "NaN"),
                            ColValue("Double", "NaN")>>
    /\ row_result.ab /\ row_result.bc /\ row_result.ac

----------------------------------------------------------------------------
(* Claims about the rows of one batch *)

\* the keys the check logs of the batch ask for
AskedKeys == {Unwrap(check_logs[i].col_values[1]) : i \in {j \in DOMAIN check_logs :
                                                           check_logs[j].col_values[1] # None}}

\* C24 (one event per returned row): in one batch_extract call the query starts
\* with nothing pushed and returns rows of the source only under keys the batch
\* asks for; every push of the call takes the head of the rows still to come and
\* pushes the row built from it, so the rows are pushed once each in result order
\* and a check log whose key the source no longer holds adds nothing; the rows to
\* come change in no other way; the call returns Ok only with every row pushed;
\* and on an empty batch it returns Ok at once, with no meta error, no query and no
\* push
C24_OneEventPerRow ==
    /\ [][kind = "check" /\ pc = "batch" /\ pc' = "rows" =>
            /\ tried' = tried /\ pending' = pending /\ buffer' = buffer
            /\ \A i \in DOMAIN rows' :
                  /\ rows'[i] = SrcRow(rows'[i]["pk"])
                  /\ rows'[i]["pk"].v \in AskedKeys
                  /\ \A j \in DOMAIN rows' : rows'[j] = rows'[i] => j = i
            /\ Len(rows') <= Len(check_logs)]_vars
    /\ [][kind = "check" /\ tried' # tried =>
            /\ pc = "rows" /\ pc' = "rows" /\ rows # <<>> /\ pending = None
            /\ rows' = Tail(rows)
            /\ LET item == [type |-> "Dml", position |-> "None",
                            row_data |-> RouteRow(CheckRowData(Head(rows), check_logs[1].tb,
                                                               check_logs[1].log_type))]
               IN tried' = Append(tried, item) /\ pending' = Some(item)]_vars
    /\ [][kind = "check" /\ rows' # rows =>
            \/ pc = "batch" /\ pc' = "rows"
            \/ rows' = Tail(rows) /\ Len(tried') = Len(tried) + 1]_vars
    /\ [][kind = "check" /\ pc = "rows" /\ pc' = "next_batch" =>
            rows = <<>> /\ pending = None /\ tried' = tried]_vars
    /\ [][kind = "check" /\ pc = "batch" /\ check_logs = <<>> =>
            /\ pc' \in {"batch", "done"}
            /\ rows' = rows /\ tried' = tried /\ pending' = None]_vars

\* a batch of two check logs is done with one row pushed: the source held a row
\* under one of the two keys only
C24_Witness ==
    /\ kind = "check" /\ pc = "next_batch" /\ pos = 2
    /\ Len(check_logs) = 2 /\ Len(tried) = 1

----------------------------------------------------------------------------
(* compare_row_data on its own *)

\* the values of the compared rows: two values that are equal only across engines
RowVals == {ColValue("Int", "1"), ColValue("Str", "1")}

\* the rows of a table: a value for every column of some columns of v, w
RowsOfTb(db_tb) ==
    UNION {{InsertRowData(db_tb[1], db_tb[2], after) : after \in [cols -> RowVals]} :
              cols \in (SUBSET CmpCols) \ {{}}}

\* a call of compare_row_data on two rows of a source table and two rows of its
\* destination table, with the column map of the router
InitRow ==
    /\ PipeIdle /\ RunIdle
    /\ src_db_tbs \in {<<db_tb>> : db_tb \in CmpTbs \ get_filtered_db_tbs}
    /\ dst_db_tbs = DstDbTbs(src_db_tbs)
    /\ filtered_db_tbs = get_filtered_db_tbs
    /\ src_db_type \in DbTypes /\ dst_db_type = "Pg"
    /\ idx = 1
    /\ src_data \in {Some(<<r1, r2>>) : r1 \in RowsOfTb(src_db_tbs[1]),
                                        r2 \in RowsOfTb(src_db_tbs[1])}
    /\ dst_data \in {Some(<<r1, r2>>) : r1 \in RowsOfTb(dst_db_tbs[1]),
                                        r2 \in RowsOfTb(dst_db_tbs[1])}
    /\ cmp_pc = "row" /\ row_result = "none" /\ cmp_result = "none"

\* compare_row_data returns for (src_data, dst_data), and for the two arguments
\* swapped
RowCompare ==
    /\ cmp_pc = "row"
    /\ LET col_map == get_col_map(src_db_tbs[1][1], src_db_tbs[1][2])
           s == Unwrap(src_data)
           d == Unwrap(dst_data)
       IN \E fwd \in compare_row_data(s, d, col_map, src_db_type, dst_db_type),
             bwd \in compare_row_data(d, s, col_map, src_db_type, dst_db_type) :
             row_result' = [fwd |-> fwd, bwd |-> bwd]
    /\ cmp_pc' = "row_done"
    /\ UNCHANGED <<runVars, pipeVars, src_db_tbs, dst_db_tbs, filtered_db_tbs, src_db_type,
                   dst_db_type, idx, src_data, dst_data, cmp_result>>

NextRow == RowCompare

SpecRow == InitRow /\ [][NextRow]_vars

\* src row i and dst row i agree on the columns of the src row, under the column
\* map m
RowMatches(s, d, m) ==
    \A c \in DOMAIN Unwrap(s.after) :
       /\ MapCol(m, c) \in DOMAIN Unwrap(d.after)
       /\ EnginePairEq(Unwrap(s.after)[c], Unwrap(d.after)[MapCol(m, c)],
                       src_db_type, dst_db_type)

\* the destination row has a column that no column of the source row maps to
HasExtraCol(s, d, m) ==
    \E c \in DOMAIN Unwrap(d.after) :
       c \notin {MapCol(m, sc) : sc \in DOMAIN Unwrap(s.after)}

\* C25 (one-directional, positional): compare_row_data(src, dst) is true exactly
\* when for every index i every column of src[i].after has its mapped column in
\* dst[i].after with an equal value; which rows stand at other indexes and which
\* further columns, with which values, dst[i] has makes no difference; and the
\* result of the call with the two arguments swapped is a result of its own, true
\* exactly when every column of dst[i].after is matched in src[i].after
C25_OneDirectionalPositional ==
    cmp_pc = "row_done" =>
       LET s == Unwrap(src_data)
           d == Unwrap(dst_data)
           m == get_col_map(src_db_tbs[1][1], src_db_tbs[1][2])
       IN /\ row_result.fwd = "true" <=> \A i \in 1..Len(s) : RowMatches(s[i], d[i], m)
          /\ row_result.bwd = "true" <=> \A i \in 1..Len(d) : RowMatches(d[i], s[i], m)
          /\ (\A i \in 1..Len(s) : RowMatches(s[i], d[i], m))
                /\ (\E i \in 1..Len(s) : HasExtraCol(s[i], d[i], m))
             => row_result.fwd = "true"

\* the rows compared true although the second destination row has a column more,
\* and with the arguments swapped they did not; the same rows paired crosswise
\* would not match
C25_Witness ==
    /\ cmp_pc = "row_done" /\ row_result.fwd = "true" /\ row_result.bwd # "true"
    /\ LET s == Unwrap(src_data)
           d == Unwrap(dst_data)
           m == get_col_map(src_db_tbs[1][1], src_db_tbs[1][2])
       IN /\ HasExtraCol(s[2], d[2], m)
          /\ ~RowMatches(s[1], d[2], m)

====
